---- MODULE Spec2Model ----
(***************************************************************************)
(* Model of rmd::Publisher (src/src/publisher.cpp): the point-cloud        *)
(* projectors, the convergence renderer, their locking of the depth-map    *)
(* snapshot and the hand-over of results to the ROS transport.             *)
(***************************************************************************)
EXTENDS Integers, Sequences, FiniteSets, TLC

\* ------------------------------------------------------------------------
\* Bounds of the model
\* ------------------------------------------------------------------------
Rows == 1
Cols == 2
MaxCalls == 2
MaxUpdates == 1

Ys == 0 .. (Rows - 1)
Xs == 0 .. (Cols - 1)

\* ------------------------------------------------------------------------
\* Snapshot contents (rmd::Depthmap, read through its getters)
\* ------------------------------------------------------------------------
CONVERGED == "CONVERGED"
DIVERGED == "DIVERGED"
UPDATE == "UPDATE"
ConvergenceState == {CONVERGED, DIVERGED, UPDATE}

ConstGrid(v) == [y \in Ys |-> [x \in Xs |-> v]]
StripedGrid(vals, k) ==
  [y \in Ys |-> [x \in Xs |-> vals[((y * Cols + x + k) % Len(vals)) + 1]]]
SpotGrid(v, w, k) == [y \in Ys |-> [x \in Xs |-> IF y * Cols + x = k THEN w ELSE v]]

\* A cv::Mat over the image, and an empty one (rows = cols = 0, data = NULL)
Mat(grid) == [rows |-> Rows, cols |-> Cols, at |-> grid]
EmptyMat == [rows |-> 0, cols |-> 0, at |-> <<>>]

NoTransport == [topic |-> "none", msg |-> <<>>, seq |-> 0]

VARIABLES
  depth,        \* Depthmap: depth grid (32FC1)
  convergence,  \* Depthmap: convergence grid (int)
  ref_img,      \* Depthmap: grayscale reference image (8UC1)
  ref_img_rgb,  \* Depthmap: colour reference image (8UC3, B,G,R)
  ref_mask,     \* Depthmap: validity mask (8UC1) or EmptyMat
  T_world_ref,  \* Depthmap: pose
  intrinsics,   \* Depthmap: fx, fy, cx, cy
  gridVer,      \* update number that last wrote each grid group
  mutex,        \* owner of Depthmap's reference-image mutex
  nh_ok,        \* ros::NodeHandle::ok()
  pc_,          \* Publisher: uncoloured point cloud
  pc_rgb_,      \* Publisher: coloured point cloud
  colored_,     \* Publisher: convergence image buffer (8UC3)
  transport,    \* last message handed to a ROS publisher
  ppc,          \* publisher thread: position in the current operation
  op,           \* publisher thread: operation being executed
  todo,         \* publisher thread: operations still to call (coordinating call)
  calls,        \* number of top-level calls made
  seen,         \* grid versions read by the current top-level call
  lastRead,     \* operation and snapshot stamp of the latest grid read
  wpc,          \* writer thread: position in its update
  wframe,       \* writer thread: the frame it is writing
  updates,      \* number of snapshot updates begun
  src_bgr,      \* colour packing: source pixel (cv::Vec3b)
  rgb,          \* colour packing: packed uint32_t
  p_rgb,        \* colour packing: PointTypeRGB::rgb (float bit fields)
  stage         \* colour packing: position

snapshot == <<depth, convergence, ref_img, ref_img_rgb, ref_mask, T_world_ref, intrinsics>>
publisher == <<pc_, pc_rgb_, colored_, transport, ppc, op, todo, calls, seen, lastRead>>
writer == <<wpc, wframe, updates>>
packing == <<src_bgr, rgb, p_rgb, stage>>
vars == <<snapshot, gridVer, mutex, nh_ok, publisher, writer, packing>>

\* ------------------------------------------------------------------------
\* Input frames the depth estimator may hold
\* ------------------------------------------------------------------------
Frame(d, c, g, bgr, m, T) ==
  [depth |-> d, convergence |-> c, ref_img |-> g, ref_img_rgb |-> bgr,
   ref_mask |-> m, T_world_ref |-> T]

GrayRamp == StripedGrid(<<0, 100, 255>>, 0)
ColorRamp == StripedGrid(<<(<<30, 20, 10>>), (<<0, 128, 255>>)>>, 0)
Pinhole == [fx |-> 1, fy |-> 1, cx |-> 0, cy |-> 0]

\* Frames of the full specification: no pixel converged; a mix of states with
\* a mask that excludes some pixels; a mix of states with no mask set.
Frames ==
  { Frame(ConstGrid(1), ConstGrid(UPDATE), GrayRamp, ColorRamp, Mat(ConstGrid(1)), "T0"),
    Frame(SpotGrid(1, 2, 0), ConstGrid(CONVERGED),
          ConstGrid(255), ColorRamp, Mat(StripedGrid(<<1, 0>>, 0)), "T1"),
    Frame(SpotGrid(1, 2, 1), StripedGrid(<<DIVERGED, CONVERGED, UPDATE>>, 0),
          GrayRamp, ColorRamp, EmptyMat, "T1") }

\* Frames of the renderer's specification: every convergence pattern with
\* every grayscale pattern.
RenderConvergence ==
  {ConstGrid(s) : s \in ConvergenceState}
    \cup {StripedGrid(<<CONVERGED, DIVERGED, UPDATE>>, k) : k \in 0 .. 2}
RenderGray == {ConstGrid(0), ConstGrid(255), GrayRamp}
RenderFrames ==
  { Frame(ConstGrid(1), c, g, ColorRamp, Mat(ConstGrid(1)), "T0") :
      c \in RenderConvergence, g \in RenderGray }

AllOps == {"Depthmap", "PointCloud", "PointCloudRGB", "ConvergenceMap",
           "DepthmapAndPointCloud"}
RenderOps == {"ConvergenceMap"}

\* Number of grid writes made so far: the stamp of the snapshot's contents
Stamp == gridVer.depth + gridVer.convergence + gridVer.reference

CountPixels(P(_, _)) == Cardinality({yx \in Ys \X Xs : P(yx[1], yx[2])})

\* ------------------------------------------------------------------------
\* Pure parts of the operations
\* ------------------------------------------------------------------------
\* normalize(make_float3((x-cx)/fx, (y-cy)/fy, 1)) * depth, moved by the pose.
\* The real-valued result is kept as the term that denotes it.
BackProject(x, y, d, T, K) ==
  [T |-> T, fx |-> <<x - K.cx, K.fx>>, fy |-> <<y - K.cy, K.fy>>, depth |-> d]

\* a << k and a | b on uint32_t (operands here are bytes and k <= 16, so no
\* bit is shifted out)
ShiftLeft(a, k) == a * (2 ^ k)
RECURSIVE BitOr(_, _)
BitOr(a, b) ==
  IF a = 0 THEN b
  ELSE IF b = 0 THEN a
  ELSE (IF (a % 2) + (b % 2) > 0 THEN 1 ELSE 0) + 2 * BitOr(a \div 2, b \div 2)

PackRGB_Swapped(bgr) ==
  BitOr(BitOr(ShiftLeft(bgr[1], 16), ShiftLeft(bgr[2], 8)), bgr[3])
\* bgr is a cv::Vec3b, 1-based here: bgr[1] is channel [0]
PackRGB(bgr) ==
  BitOr(BitOr(ShiftLeft(bgr[3], 16), ShiftLeft(bgr[2], 8)), bgr[1])

\* *reinterpret_cast<float*>(&rgb): the same 32 bits read as an IEEE-754
\* binary32 (sign, exponent, mantissa)
ReinterpretAsFloat(u) ==
  [sign |-> (u \div (2 ^ 30)) \div 2, exponent |-> (u \div (2 ^ 23)) % 256,
   mantissa |-> u % (2 ^ 23)]

\* lines 71-88: the pixel loops of publishPointCloud
RECURSIVE CloudCols(_, _, _, _)
CloudCols(s, y, x, cloud) ==
  IF x >= Cols THEN cloud
  ELSE CloudCols(s, y, x + 1,
         IF s.convergence[y][x] = CONVERGED
         THEN Append(cloud, [xyz |-> BackProject(x, y, s.depth[y][x], s.T, s.K),
                             intensity |-> s.ref_img[y][x]])
         ELSE cloud)
RECURSIVE CloudRows(_, _, _)
CloudRows(s, y, cloud) ==
  IF y >= Rows THEN cloud ELSE CloudRows(s, y + 1, CloudCols(s, y, 0, cloud))

\* lines 128-150: the pixel loops of publishPointCloudRGB; s.mask is the
\* grid the reads of ref_mask return
RECURSIVE CloudRGBCols(_, _, _, _)
CloudRGBCols(s, y, x, cloud) ==
  IF x >= Cols THEN cloud
  ELSE CloudRGBCols(s, y, x + 1,
         IF s.convergence[y][x] = CONVERGED /\ s.mask[y][x] = 1
         THEN Append(cloud, [xyz |-> BackProject(x, y, s.depth[y][x], s.T, s.K),
                             rgb |-> ReinterpretAsFloat(PackRGB(s.ref_img_rgb[y][x]))])
         ELSE cloud)
RECURSIVE CloudRGBRows(_, _, _)
CloudRGBRows(s, y, cloud) ==
  IF y >= Rows THEN cloud ELSE CloudRGBRows(s, y + 1, CloudRGBCols(s, y, 0, cloud))

\* cv::cvtColor(ref_img, colored_, CV_GRAY2BGR): every pixel of the
\* destination is written
GrayToBGR(gray) == [y \in Ys |-> [x \in Xs |-> <<gray[y][x], gray[y][x], gray[y][x]>>]]

TintPixel_Swapped(state, px) ==
  CASE state = CONVERGED -> [px EXCEPT ![3] = 255]
    [] state = DIVERGED -> [px EXCEPT ![1] = 255]
    [] OTHER -> px
\* lines 191-201: the switch on one pixel's state
TintPixel(state, px) ==
  CASE state = CONVERGED -> [px EXCEPT ![1] = 255]
    [] state = DIVERGED -> [px EXCEPT ![3] = 255]
    [] OTHER -> px

\* lines 187-203: the loops over colored_
Tint(conv, image) == [y \in Ys |-> [x \in Xs |-> TintPixel(conv[y][x], image[y][x])]]

\* ------------------------------------------------------------------------
\* Initial state: the Publisher just constructed over a Depthmap
\* ------------------------------------------------------------------------
NoFrame == "none"
ChannelVals == {0, 10, 20, 30, 128, 255}

\* lines 27-40; colored_.create leaves the buffer's pixels uninitialised (no
\* operation reads them before cvtColor has overwritten them)
Constructed(frames) ==
  /\ \E f \in frames :
       /\ depth = f.depth
       /\ convergence = f.convergence
       /\ ref_img = f.ref_img
       /\ ref_img_rgb = f.ref_img_rgb
       /\ ref_mask = f.ref_mask
       /\ T_world_ref = f.T_world_ref
  /\ intrinsics = Pinhole
  /\ gridVer = [depth |-> 0, convergence |-> 0, reference |-> 0]
  /\ mutex = "none"
  /\ pc_ = <<>>
  /\ pc_rgb_ = <<>>
  /\ colored_ = ConstGrid(<<205, 205, 205>>)
  /\ transport = NoTransport
  /\ ppc = "idle"
  /\ op = "none"
  /\ todo = <<>>
  /\ calls = 0
  /\ seen = {}
  /\ lastRead = [op |-> "none", stamp |-> 0]
  /\ wpc = "idle"
  /\ wframe = NoFrame
  /\ updates = 0

\* the colour packing is followed on its own only in SpecPack
PackingOff ==
  /\ src_bgr = <<0, 0, 0>>
  /\ rgb = 0
  /\ p_rgb = ReinterpretAsFloat(0)
  /\ stage = "off"

\* nh_.ok(): the node is up, or has already been shut down
Init ==
  /\ Constructed(Frames)
  /\ nh_ok \in BOOLEAN
  /\ PackingOff

InitRender ==
  /\ Constructed(RenderFrames)
  /\ nh_ok \in BOOLEAN
  /\ PackingOff

\* ------------------------------------------------------------------------
\* The publisher thread
\* ------------------------------------------------------------------------
Entry(o) == IF o = "Depthmap" THEN "publish" ELSE "lock"

\* return from the current operation; lines 174-176 call the next one.
\* versions is what the top-level call has read so far.
Finish(versions) ==
  IF todo = <<>>
  THEN /\ ppc' = "idle"
       /\ op' = "none"
       /\ todo' = <<>>
       /\ seen' = {}
  ELSE /\ op' = Head(todo)
       /\ todo' = Tail(todo)
       /\ ppc' = Entry(Head(todo))
       /\ seen' = versions

\* pub.publish(msg): the message is handed to the transport (seq alternates
\* with every message, so that a repeated message is a change too)
Hand(topic, msg) == transport' = [topic |-> topic, msg |-> msg, seq |-> 1 - transport.seq]

\* std::lock_guard<std::mutex> lock(depthmap_->getRefImgMutex())
Acquire(o) ==
  /\ ppc = "lock"
  /\ op = o
  /\ mutex = "none"
  /\ mutex' = "publisher"
  /\ ppc' = "loop"
  /\ UNCHANGED <<snapshot, gridVer, nh_ok, pc_, pc_rgb_, colored_, transport, op,
                 todo, calls, seen, lastRead, writer, packing>>

\* a caller invokes one of the public operations
Call(ops) ==
  /\ ppc = "idle"
  /\ calls < MaxCalls
  /\ calls' = calls + 1
  /\ \E o \in ops :
       /\ op' = IF o = "DepthmapAndPointCloud" THEN "Depthmap" ELSE o
       /\ todo' = IF o = "DepthmapAndPointCloud"
                  THEN <<"PointCloud", "PointCloudRGB">> ELSE <<>>
       /\ ppc' = Entry(op')
  /\ UNCHANGED <<snapshot, gridVer, mutex, nh_ok, pc_, pc_rgb_, colored_, transport,
                 seen, lastRead, writer, packing>>

\* What an unlocked copy of the depth grid can return: the grid itself, or,
\* while the writer is writing it, any mix of old and new pixels.
TornDepth(sel) ==
  [y \in Ys |-> [x \in Xs |-> IF sel[y][x] THEN wframe.depth[y][x] ELSE depth[y][x]]]
DepthSelectors ==
  IF wpc = "depth" THEN [Ys -> [Xs -> BOOLEAN]] ELSE {ConstGrid(FALSE)}
DepthVersions(sel) ==
  {gridVer.depth : yx \in {p \in Ys \X Xs : ~sel[p[1]][p[2]]}}
    \cup {updates : yx \in {p \in Ys \X Xs : sel[p[1]][p[2]]}}

\* lines 42-54: no lock is taken; toImageMsg copies the pixels
publishDepthmap ==
  /\ ppc = "publish"
  /\ op = "Depthmap"
  /\ IF nh_ok
     THEN \E sel \in DepthSelectors :
            /\ Hand("remode/depth", TornDepth(sel))
            /\ lastRead' = [op |-> "Depthmap", stamp |-> Stamp]
            /\ Finish(seen \cup DepthVersions(sel))
     ELSE /\ UNCHANGED <<transport, lastRead>>
          /\ Finish(seen)
  /\ UNCHANGED <<snapshot, gridVer, mutex, nh_ok, pc_, pc_rgb_, colored_, calls,
                 writer, packing>>

AllVersions == {gridVer.depth, gridVer.convergence, gridVer.reference}

\* line 59
publishPointCloud_Lock == Acquire("PointCloud")

\* lines 61-88
publishPointCloud_Loop ==
  /\ ppc = "loop"
  /\ op = "PointCloud"
  /\ pc_' = CloudRows([depth |-> depth, convergence |-> convergence,
                       ref_img |-> ref_img, T |-> T_world_ref, K |-> intrinsics],
                      0, pc_)
  /\ seen' = seen \cup AllVersions
  /\ lastRead' = [op |-> "PointCloud", stamp |-> Stamp]
  /\ ppc' = "unlock"
  /\ UNCHANGED <<snapshot, gridVer, mutex, nh_ok, pc_rgb_, colored_, transport, op,
                 todo, calls, writer, packing>>

\* line 89: the lock_guard's scope ends
publishPointCloud_Unlock ==
  /\ ppc = "unlock"
  /\ op = "PointCloud"
  /\ mutex' = "none"
  /\ ppc' = "publish"
  /\ UNCHANGED <<snapshot, gridVer, nh_ok, pc_, pc_rgb_, colored_, transport, op,
                 todo, calls, seen, lastRead, writer, packing>>

publishPointCloud_Publish_Always ==
  /\ ppc = "publish"
  /\ op = "PointCloud"
  /\ IF nh_ok
     THEN Hand("remode/pointcloud", pc_)
     ELSE UNCHANGED transport
  /\ Finish(seen)
  /\ UNCHANGED <<snapshot, gridVer, mutex, nh_ok, pc_, pc_rgb_, colored_, calls,
                 lastRead, writer, packing>>

\* lines 90-106
publishPointCloud_Publish ==
  /\ ppc = "publish"
  /\ op = "PointCloud"
  /\ IF pc_ # <<>> /\ nh_ok
     THEN Hand("remode/pointcloud", pc_)
     ELSE UNCHANGED transport
  /\ Finish(seen)
  /\ UNCHANGED <<snapshot, gridVer, mutex, nh_ok, pc_, pc_rgb_, colored_, calls,
                 lastRead, writer, packing>>

\* line 113
publishPointCloudRGB_Lock == Acquire("PointCloudRGB")

AnyConverged == \E y \in Ys : \E x \in Xs : convergence[y][x] = CONVERGED

RGBLocals(mask) ==
  [depth |-> depth, convergence |-> convergence, ref_img_rgb |-> ref_img_rgb,
   mask |-> mask, T |-> T_world_ref, K |-> intrinsics]

\* lines 115-150.  ref_mask.at<uchar>(y, x) on an empty cv::Mat reads through
\* a null data pointer: the call faults, or the reads return arbitrary bytes.
\* The mask is read only for CONVERGED pixels (&& short-circuits).
publishPointCloudRGB_Loop ==
  /\ ppc = "loop"
  /\ op = "PointCloudRGB"
  /\ seen' = seen \cup AllVersions
  /\ lastRead' = [op |-> "PointCloudRGB", stamp |-> Stamp]
  /\ IF ref_mask.rows = 0 /\ AnyConverged
     THEN \/ /\ ppc' = "crashed"
             /\ mutex' = "none"
             /\ pc_rgb_' = pc_rgb_
          \/ \E garbage \in [Ys -> [Xs -> {0, 1}]] :
               /\ pc_rgb_' = CloudRGBRows(RGBLocals(garbage), 0, pc_rgb_)
               /\ ppc' = "unlock"
               /\ mutex' = mutex
     ELSE /\ pc_rgb_' = CloudRGBRows(RGBLocals(IF ref_mask.rows = 0
                                               THEN ConstGrid(0) ELSE ref_mask.at),
                                     0, pc_rgb_)
          /\ ppc' = "unlock"
          /\ mutex' = mutex
  /\ UNCHANGED <<snapshot, gridVer, nh_ok, pc_, colored_, transport, op,
                 todo, calls, writer, packing>>

\* line 152: the lock_guard's scope ends
publishPointCloudRGB_Unlock ==
  /\ ppc = "unlock"
  /\ op = "PointCloudRGB"
  /\ mutex' = "none"
  /\ ppc' = "publish"
  /\ UNCHANGED <<snapshot, gridVer, nh_ok, pc_, pc_rgb_, colored_, transport, op,
                 todo, calls, seen, lastRead, writer, packing>>

\* lines 153-169
publishPointCloudRGB_Publish ==
  /\ ppc = "publish"
  /\ op = "PointCloudRGB"
  /\ IF pc_rgb_ # <<>> /\ nh_ok
     THEN Hand("remode/rgb_pointcloud", pc_rgb_)
     ELSE UNCHANGED transport
  /\ Finish(seen)
  /\ UNCHANGED <<snapshot, gridVer, mutex, nh_ok, pc_, pc_rgb_, colored_, calls,
                 lastRead, writer, packing>>

\* line 181
publishConvergenceMap_Lock == Acquire("ConvergenceMap")

publishConvergenceMap_Render_InPlace ==
  /\ ppc = "loop"
  /\ op = "ConvergenceMap"
  /\ colored_' = Tint(convergence, GrayToBGR(ref_img))
  /\ ref_img' = [y \in Ys |-> [x \in Xs |-> TintPixel(convergence[y][x],
                                                     GrayToBGR(ref_img)[y][x])[1]]]
  /\ seen' = seen \cup {gridVer.convergence, gridVer.reference}
  /\ lastRead' = [op |-> "ConvergenceMap", stamp |-> Stamp]
  /\ ppc' = "publish"
  /\ UNCHANGED <<depth, convergence, ref_img_rgb, ref_mask, T_world_ref, intrinsics,
                 gridVer, mutex, nh_ok, pc_, pc_rgb_, transport, op,
                 todo, calls, writer, packing>>

\* lines 183-203
publishConvergenceMap_Render ==
  /\ ppc = "loop"
  /\ op = "ConvergenceMap"
  /\ colored_' = Tint(convergence, GrayToBGR(ref_img))
  /\ seen' = seen \cup {gridVer.convergence, gridVer.reference}
  /\ lastRead' = [op |-> "ConvergenceMap", stamp |-> Stamp]
  /\ ppc' = "publish"
  /\ UNCHANGED <<snapshot, gridVer, mutex, nh_ok, pc_, pc_rgb_, transport, op,
                 todo, calls, writer, packing>>

\* lines 204-213: the lock taken at line 181 is still held
publishConvergenceMap_Publish ==
  /\ ppc = "publish"
  /\ op = "ConvergenceMap"
  /\ IF nh_ok
     THEN Hand("remode/convergence", colored_)
     ELSE UNCHANGED transport
  /\ ppc' = "unlock"
  /\ UNCHANGED <<snapshot, gridVer, mutex, nh_ok, pc_, pc_rgb_, colored_, op,
                 todo, calls, seen, lastRead, writer, packing>>

\* line 214: the function returns and the lock_guard is destroyed
publishConvergenceMap_Unlock ==
  /\ ppc = "unlock"
  /\ op = "ConvergenceMap"
  /\ mutex' = "none"
  /\ Finish(seen)
  /\ UNCHANGED <<snapshot, gridVer, nh_ok, pc_, pc_rgb_, colored_, transport,
                 calls, lastRead, writer, packing>>

\* ------------------------------------------------------------------------
\* The depth estimator: it replaces the grids while holding the mutex
\* ------------------------------------------------------------------------
WriterLock(frames) ==
  /\ wpc = "idle"
  /\ mutex = "none"
  /\ updates < MaxUpdates
  /\ \E f \in frames : wframe' = f
  /\ updates' = updates + 1
  /\ mutex' = "writer"
  /\ wpc' = "depth"
  /\ UNCHANGED <<snapshot, gridVer, nh_ok, publisher, packing>>

WriteDepth ==
  /\ wpc = "depth"
  /\ depth' = wframe.depth
  /\ gridVer' = [gridVer EXCEPT !.depth = updates]
  /\ wpc' = "convergence"
  /\ UNCHANGED <<convergence, ref_img, ref_img_rgb, ref_mask, T_world_ref, intrinsics,
                 mutex, nh_ok, publisher, wframe, updates, packing>>

WriteConvergence ==
  /\ wpc = "convergence"
  /\ convergence' = wframe.convergence
  /\ gridVer' = [gridVer EXCEPT !.convergence = updates]
  /\ wpc' = "reference"
  /\ UNCHANGED <<depth, ref_img, ref_img_rgb, ref_mask, T_world_ref, intrinsics,
                 mutex, nh_ok, publisher, wframe, updates, packing>>

WriteReference ==
  /\ wpc = "reference"
  /\ ref_img' = wframe.ref_img
  /\ ref_img_rgb' = wframe.ref_img_rgb
  /\ ref_mask' = wframe.ref_mask
  /\ T_world_ref' = wframe.T_world_ref
  /\ gridVer' = [gridVer EXCEPT !.reference = updates]
  /\ wpc' = "unlock"
  /\ UNCHANGED <<depth, convergence, intrinsics, mutex, nh_ok, publisher, wframe,
                 updates, packing>>

WriterUnlock ==
  /\ wpc = "unlock"
  /\ mutex' = "none"
  /\ wpc' = "idle"
  /\ wframe' = NoFrame
  /\ UNCHANGED <<snapshot, gridVer, nh_ok, publisher, updates, packing>>

\* ------------------------------------------------------------------------
\* Colour packing on its own (lines 145-146), for one source pixel
\* ------------------------------------------------------------------------
InitPack ==
  /\ Constructed({f \in Frames : f.T_world_ref = "T0"})
  /\ nh_ok = TRUE
  /\ src_bgr \in ChannelVals \X ChannelVals \X ChannelVals
  /\ rgb = 0
  /\ p_rgb = ReinterpretAsFloat(0)
  /\ stage = "src"

\* line 145
PackColor ==
  /\ stage = "src"
  /\ rgb' = PackRGB(src_bgr)
  /\ stage' = "packed"
  /\ UNCHANGED <<snapshot, gridVer, mutex, nh_ok, publisher, writer, src_bgr, p_rgb>>

\* line 146
StoreColor ==
  /\ stage = "packed"
  /\ p_rgb' = ReinterpretAsFloat(rgb)
  /\ stage' = "stored"
  /\ UNCHANGED <<snapshot, gridVer, mutex, nh_ok, publisher, writer, src_bgr, rgb>>

\* ------------------------------------------------------------------------
\* Specifications
\* ------------------------------------------------------------------------
Next ==
  \/ Call(AllOps)
  \/ publishDepthmap
  \/ publishPointCloud_Lock
  \/ publishPointCloud_Loop
  \/ publishPointCloud_Unlock
  \/ publishPointCloud_Publish
  \/ publishPointCloudRGB_Lock
  \/ publishPointCloudRGB_Loop
  \/ publishPointCloudRGB_Unlock
  \/ publishPointCloudRGB_Publish
  \/ publishConvergenceMap_Lock
  \/ publishConvergenceMap_Render
  \/ publishConvergenceMap_Publish
  \/ publishConvergenceMap_Unlock
  \/ WriterLock(Frames)
  \/ WriteDepth
  \/ WriteConvergence
  \/ WriteReference
  \/ WriterUnlock

\* every operation, with the depth estimator running beside the publisher
Spec == Init /\ [][Next]_vars

NextRender ==
  \/ Call(RenderOps)
  \/ publishConvergenceMap_Lock
  \/ publishConvergenceMap_Render
  \/ publishConvergenceMap_Publish
  \/ publishConvergenceMap_Unlock
  \/ WriterLock(RenderFrames)
  \/ WriteDepth
  \/ WriteConvergence
  \/ WriteReference
  \/ WriterUnlock

\* the renderer alone, over every convergence and grayscale pattern
SpecRender == InitRender /\ [][NextRender]_vars

NextPack ==
  \/ PackColor
  \/ StoreColor

\* the colour packing of one pixel
SpecPack == InitPack /\ [][NextPack]_vars

\* ------------------------------------------------------------------------
\* Properties
\* ------------------------------------------------------------------------
IsConverged(y, x) == convergence[y][x] = CONVERGED
IsConvergedAndValid(y, x) ==
  /\ convergence[y][x] = CONVERGED
  /\ ref_mask.rows = 0 \/ ref_mask.at[y][x] = 1
IsTinted(y, x) == convergence[y][x] \in {CONVERGED, DIVERGED}

Projectors == {"PointCloud", "PointCloudRGB"}
Buffer(o) == IF o = "PointCloud" THEN pc_ ELSE pc_rgb_
Topic(o) == IF o = "PointCloud" THEN "remode/pointcloud" ELSE "remode/rgb_pointcloud"

\* the step that runs the pixel loops of operation o
LoopStep(o) == op = o /\ ppc = "loop" /\ ppc' # ppc
\* a step in which pixels of a grid are read
ReadStep ==
  /\ ppc' # ppc
  /\ ppc = "loop" \/ (op = "Depthmap" /\ ppc = "publish" /\ nh_ok)
\* a step in which a message is handed to the transport
HandStep == transport' # transport

\* the condition of C1 on one step
C1_Step ==
  (op = "PointCloud" /\ HandStep /\ lastRead.stamp = Stamp) =>
    Len(transport'.msg) = CountPixels(IsConverged)

\* C1: the point set publishPointCloud hands to the transport has exactly as
\* many points as the convergence map has CONVERGED pixels (the map being as
\* the call read it), whatever calls were made before.
C1_PointCountIsConvergedCount == [][C1_Step]_vars

\* the condition of C2 on one step
C2_Step ==
  LoopStep("PointCloudRGB") =>
    /\ ppc' = "unlock"
    /\ Len(pc_rgb_') = CountPixels(IsConvergedAndValid)

\* C2: the point set publishPointCloudRGB builds has exactly as many points as
\* there are pixels that are CONVERGED and have mask 1; with an empty mask
\* every pixel counts as valid.
C2_ColoredCountIsConvergedAndValid == [][C2_Step]_vars

\* the condition of C3 on one step
C3_Step ==
  \A o \in {"PointCloud", "PointCloudRGB", "ConvergenceMap"} :
    (LoopStep(o) /\ lastRead = [op |-> o, stamp |-> Stamp]) =>
      /\ o = "PointCloud" => pc_' = pc_
      /\ o = "PointCloudRGB" => pc_rgb_' = pc_rgb_
      /\ o = "ConvergenceMap" => colored_' = colored_

\* C3: an operation called twice in a row on an unmodified snapshot produces
\* the same output the second time as the first (point sequence or image).
C3_Idempotent == [][C3_Step]_vars

\* C4: in the image publishConvergenceMap produces, a CONVERGED pixel has
\* channel 0 = 255 and channels 1, 2 = g; a DIVERGED pixel has channel 2 = 255
\* and channels 0, 1 = g; any other pixel has all three channels = g, where g
\* is the pixel's grayscale value; and this image is the one handed over.
C4_RenderedImage ==
  (op = "ConvergenceMap" /\ ppc \in {"publish", "unlock"}) =>
    /\ \A y \in Ys : \A x \in Xs :
         LET g == ref_img[y][x]
             px == colored_[y][x]
         IN CASE convergence[y][x] = CONVERGED -> px = <<255, g, g>>
              [] convergence[y][x] = DIVERGED -> px = <<g, g, 255>>
              [] OTHER -> px = <<g, g, g>>
    /\ (ppc = "unlock" /\ nh_ok) =>
         transport.topic = "remode/convergence" /\ transport.msg = colored_

C4_Witness ==
  /\ op = "ConvergenceMap"
  /\ ppc = "unlock"
  /\ calls = 2
  /\ nh_ok
  /\ \E x \in Xs : convergence[0][x] = CONVERGED /\ ref_img[0][x] = 0
  /\ \E x \in Xs : convergence[0][x] = DIVERGED /\ ref_img[0][x] = 100

\* the condition of C5 on one step
C5_Step ==
  /\ (LoopStep("PointCloud") /\ CountPixels(IsConverged) = 0) => pc_' = <<>>
  /\ (LoopStep("PointCloudRGB") /\ CountPixels(IsConverged) = 0) => pc_rgb_' = <<>>
  /\ (LoopStep("ConvergenceMap") /\ CountPixels(IsTinted) = 0) =>
       colored_' = GrayToBGR(ref_img)

\* C5: when the convergence map read has no CONVERGED pixel both projectors
\* yield an empty point set, and when it has no DIVERGED pixel either the
\* renderer yields the grayscale image replicated in three channels, whatever
\* calls were made before on earlier snapshots.
C5_NothingConverged == [][C5_Step]_vars

\* the 32 bits of a float, and the inverse of the packing rule
FloatBits(f) == ((f.sign * 2) * (2 ^ 30)) + (f.exponent * (2 ^ 23)) + f.mantissa
UnpackRGB(u) == <<(u \div 65536) % 256, (u \div 256) % 256, u % 256>>

\* C6: the packed value of a source pixel (B,G,R) is R*65536 + G*256 + B with
\* the top byte 0, and unpacking the stored colour returns (R,G,B); (10,20,30)
\* round-trips to (10,20,30).
C6_PackRoundTrip ==
  LET B == src_bgr[1]
      G == src_bgr[2]
      R == src_bgr[3]
  IN /\ stage \in {"packed", "stored"} =>
          /\ rgb = R * 65536 + G * 256 + B
          /\ rgb \div (2 ^ 24) = 0
     /\ stage = "stored" =>
          /\ FloatBits(p_rgb) = rgb
          /\ UnpackRGB(FloatBits(p_rgb)) = <<R, G, B>>
          /\ src_bgr = <<30, 20, 10>> => UnpackRGB(FloatBits(p_rgb)) = <<10, 20, 30>>

C6_Witness == stage = "stored" /\ src_bgr = <<30, 20, 10>>

\* the condition of C7 on one step
C7_Step ==
  /\ ReadStep => mutex = "publisher"
  /\ HandStep => mutex # "publisher"

\* C7: every publishing operation holds the snapshot mutex whenever it reads
\* pixels of a grid, and does not hold it when it hands a message to the
\* transport.
C7_LockDiscipline == [][C7_Step]_vars

\* the condition of C8 on one step
C8_Step ==
  /\ ReadStep => wpc = "idle"
  /\ Cardinality(seen') <= 1

\* C8: no call reads a grid while the writer is in the middle of an update,
\* and all the grids one top-level call reads come from one snapshot version.
C8_OneSnapshotPerCall == [][C8_Step]_vars

\* the condition of C9 on one step
C9_Step ==
  /\ ppc' # ppc => snapshot' = snapshot
  /\ LoopStep("ConvergenceMap") => (pc_' = pc_ /\ pc_rgb_' = pc_rgb_)

\* C9: no step of a publishing operation changes the depth grid, the
\* convergence grid, the reference images, the mask, the pose or the
\* intrinsics; the renderer writes to colored_ only.
C9_SnapshotReadOnly == [][C9_Step]_vars

C9_Witness ==
  /\ op = "ConvergenceMap"
  /\ ppc = "unlock"
  /\ calls = 2
  /\ pc_ # <<>>
  /\ pc_rgb_ # <<>>
  /\ transport.topic = "remode/convergence"
  /\ CountPixels(IsTinted) > 0

\* the condition of C10 on one step
C10_Step ==
  op \in Projectors =>
    /\ HandStep =>
         /\ ppc = "publish"
         /\ lastRead.op = op
         /\ Buffer(op) # <<>>
         /\ nh_ok
         /\ transport' = [topic |-> Topic(op), msg |-> Buffer(op),
                          seq |-> 1 - transport.seq]
    /\ (ppc = "publish" /\ ppc' # ppc) =>
         /\ ppc' # "crashed"
         /\ HandStep <=> (Buffer(op) # <<>> /\ nh_ok)

\* C10: a projector hands its point set to the transport only from its publish
\* step (after its pixel loop), only if the set is non-empty and the node
\* handle is ok, and then exactly once; with an empty set the call returns
\* without a message and without a fault.
C10_PublishOnlyNonEmpty == [][C10_Step]_vars

C10_Witness ==
  /\ ppc = "idle"
  /\ calls = 2
  /\ nh_ok
  /\ lastRead.op = "PointCloud"
  /\ pc_ = <<>>
  /\ transport.topic = "remode/rgb_pointcloud"

====
